---------------------------- MODULE Spec2Model ----------------------------
(***************************************************************************)
(* Visitor.py: a Streamlit dashboard.  Every user interaction re-runs the  *)
(* script top to bottom: sidebar buttons, load_data() behind a TTL cache,  *)
(* the empty / required-column checks, preprocessing, the sidebar filter   *)
(* stage and the view chosen in the navigation box.                        *)
(*                                                                         *)
(* A DataFrame is a record [columns, rows]: columns is the set of column   *)
(* names, rows the sequence of rows in index order.  A timestamp is the    *)
(* number of hours since a Monday 00:00, so that date, hour and day_name   *)
(* are computed from it as the .dt accessors compute them.                 *)
(***************************************************************************)
EXTENDS Integers, Sequences, FiniteSets, TLC

VARIABLES
    source,         \* what pd.read_csv(CSV_URL) would meet right now
    cache,          \* st.cache_data entry of load_data(), or NoEntry
    session_state,  \* st.session_state: key -> value, keyed widgets included
    widgets,        \* state of the widgets created without a key
    event,          \* the last event: an interaction that ran the script, or
                    \* a change of the environment (clock, source)
    fetched,        \* whether the last load_data() call executed its body
    df,             \* the loaded record set of the last script run
    filtered_df,    \* the filter stage's result of the last script run
    out,            \* what the last script run put on the page
    runtime         \* what the installed Streamlit does with the state of the
                    \* widgets a run that ended early (st.stop, st.rerun) did
                    \* not reach: "keeps" or "drops"; fixed for a deployment

vars == <<source, cache, session_state, widgets, event, fetched, df, filtered_df, out, runtime>>

---------------------------------------------------------------------------
(* Bounds of the model *)

MaxRows == 2        \* rows of a record set drawn for the filter stage
MaxDate == 2        \* dates are 0..MaxDate
MaxTrendRows == 9   \* visits, and days, of a sheet drawn for the analytics view
MaxTieRows == 3     \* visits of a sheet drawn with equal timestamps
MaxTableRows == 101 \* visits of the longest sheet drawn for the table view
MaxViewRows == 2    \* visits of a sheet drawn for the views

---------------------------------------------------------------------------
(* Values *)

NaN == "NaN"                     \* a missing cell (pandas NaN / None)
NoEntry == [kind |-> "none"]     \* no cache entry
ALL == "All"
ALL_DAY == "All Day"
MORNING == "Morning (6-12)"
AFTERNOON == "Afternoon (12-18)"
EVENING == "Evening (18-24)"
NIGHT == "Night (0-6)"

time_options == <<ALL_DAY, MORNING, AFTERNOON, EVENING, NIGHT>>

day_order == <<"Monday", "Tuesday", "Wednesday", "Thursday", "Friday", "Saturday", "Sunday">>

required_cols == {"timestamp", "ip", "country"}

Range(s) == {s[i] : i \in DOMAIN s}

\* pd.DataFrame(): no columns, no rows
EmptyFrame == [columns |-> {}, rows |-> <<>>]

\* df.empty: no rows or no columns
IsEmpty(d) == d.rows = <<>> \/ d.columns = {}

---------------------------------------------------------------------------
(* Preprocessing, lines 176-183 *)

IsNaT(t) == t < 0

\* .dt.date, .dt.hour, .dt.day_name() of a timestamp counted in hours
DateOf(t) == t \div 24
HourOf(t) == t % 24
DayNameOf(t) == day_order[(DateOf(t) % 7) + 1]

\* to_datetime(errors='coerce'), dropna(subset=['timestamp']) and the three
\* derived columns
Preprocess(d) ==
    LET kept == SelectSeq(d.rows, LAMBDA r : ~IsNaT(r.timestamp))
    IN  [columns |-> d.columns \cup {"date", "hour", "day_name"},
         rows |-> [i \in DOMAIN kept |->
                     [index |-> kept[i].index,
                      timestamp |-> kept[i].timestamp, country |-> kept[i].country,
                      device |-> kept[i].device, browser |-> kept[i].browser,
                      lat |-> kept[i].lat, lon |-> kept[i].lon,
                      date |-> DateOf(kept[i].timestamp), hour |-> HourOf(kept[i].timestamp),
                      day_name |-> DayNameOf(kept[i].timestamp)]]]

---------------------------------------------------------------------------
(* Sidebar widgets, lines 190-221 *)

\* df[col].dropna().unique() for the three categorical columns
ColumnValues(d, col) ==
    {v \in {IF col = "country" THEN d.rows[i].country
            ELSE IF col = "device" THEN d.rows[i].device
            ELSE d.rows[i].browser : i \in DOMAIN d.rows} : v # NaN}

\* ['All'] + sorted(df[col].dropna().unique().tolist())
SelectOptions(d, col) == {ALL} \cup ColumnValues(d, col)

MinOf(S) == CHOOSE x \in S : \A y \in S : x <= y
MaxOf(S) == CHOOSE x \in S : \A y \in S : y <= x

\* df['date'].min(), df['date'].max()
DateMin(d) == MinOf({d.rows[i].date : i \in DOMAIN d.rows})
DateMax(d) == MaxOf({d.rows[i].date : i \in DOMAIN d.rows})

\* what st.date_input can return: a (start, end) pair within
\* [min_value, max_value], or a 1-tuple while the end is not picked yet
DateRangeChoices(d) ==
    {<<a, b>> : a \in DateMin(d)..DateMax(d), b \in DateMin(d)..DateMax(d)}
        \cup {<<a>> : a \in DateMin(d)..DateMax(d)}

---------------------------------------------------------------------------
(* Apply filters, lines 223-257.  A predicate set P is the record of the  *)
(* five widget values [date_range, country, device, browser, time_filter] *)

\* a bucket read off its label "(6-12)": the upper hour taken one too far
BetweenUpToLabel(h, lo, hi) == lo <= h /\ h <= hi + 1

\* Series.between(lo, hi), inclusive on both sides
Between(h, lo, hi) == lo <= h /\ h <= hi

\* the date mask with the end date left out
DateFilterEndExcluded(d, date_range) ==
    IF Len(date_range) = 2
    THEN [d EXCEPT !.rows = SelectSeq(d.rows,
              LAMBDA r : r.date >= date_range[1] /\ r.date < date_range[2])]
    ELSE d

\* lines 227-232
DateFilter(d, date_range) ==
    IF Len(date_range) = 2
    THEN [d EXCEPT !.rows = SelectSeq(d.rows,
              LAMBDA r : r.date >= date_range[1] /\ r.date <= date_range[2])]
    ELSE d

\* lines 235-236
CountryFilter(d, selected_country) ==
    IF selected_country # ALL
    THEN [d EXCEPT !.rows = SelectSeq(d.rows, LAMBDA r : r.country = selected_country)]
    ELSE d

\* lines 239-240
DeviceFilter(d, selected_device) ==
    IF selected_device # ALL /\ "device" \in d.columns
    THEN [d EXCEPT !.rows = SelectSeq(d.rows, LAMBDA r : r.device = selected_device)]
    ELSE d

\* lines 243-244
BrowserFilter(d, selected_browser) ==
    IF selected_browser # ALL /\ "browser" \in d.columns
    THEN [d EXCEPT !.rows = SelectSeq(d.rows, LAMBDA r : r.browser = selected_browser)]
    ELSE d

\* lines 247-255
TimeFilter(d, time_filter) ==
    IF time_filter # ALL_DAY
    THEN IF time_filter = MORNING
         THEN [d EXCEPT !.rows = SelectSeq(d.rows, LAMBDA r : Between(r.hour, 6, 11))]
         ELSE IF time_filter = AFTERNOON
         THEN [d EXCEPT !.rows = SelectSeq(d.rows, LAMBDA r : Between(r.hour, 12, 17))]
         ELSE IF time_filter = EVENING
         THEN [d EXCEPT !.rows = SelectSeq(d.rows, LAMBDA r : Between(r.hour, 18, 23))]
         ELSE IF time_filter = NIGHT
         THEN [d EXCEPT !.rows = SelectSeq(d.rows, LAMBDA r : Between(r.hour, 0, 5))]
         ELSE d
    ELSE d

\* lines 191, 223-257: the five filters in the script's order, or the copy
\* of df when df has no rows
ApplyFilters(d, P) ==
    IF Len(d.rows) > 0
    THEN TimeFilter(
           BrowserFilter(
             DeviceFilter(
               CountryFilter(
                 DateFilter(d, P.date_range),
                 P.country),
               P.device),
             P.browser),
           P.time_filter)
    ELSE d

\* The frames of a run are objects: df names the object "df", and an
\* assignment into a column (line 343) changes the object it is made on,
\* under every name that object has.

\* a copy that is the frame copied itself
CopySameObject(obj) == obj

\* lines 224, 257: df.copy() is a new object
Copy(obj) == "copy"

\* lines 229-255: indexing by a boolean mask returns a new object
Selection(obj) == "selection"

\* the object filtered_df names after lines 224-257
FilteredObject(d, P) ==
    IF Len(d.rows) > 0
    THEN IF \/ Len(P.date_range) = 2
            \/ P.country # ALL
            \/ P.device # ALL /\ "device" \in d.columns
            \/ P.browser # ALL /\ "browser" \in d.columns
            \/ P.time_filter # ALL_DAY
         THEN Selection(Copy("df"))
         ELSE Copy("df")
    ELSE Copy("df")

\* the object "df" after the view has run on filtered_df
DfAfterView(d, P, filtered) ==
    IF FilteredObject(d, P) = "df" THEN filtered ELSE d

---------------------------------------------------------------------------
(* load_data() behind st.cache_data(ttl=30), lines 90-98 *)

TTL == 30

\* The source is either unreachable / unparsable (pd.read_csv raises) or a
\* sheet [columns, rows] whose headers are as typed in the sheet.
Down == [kind |-> "down"]
Sheet(cols, rows) == [kind |-> "sheet", columns |-> cols, rows |-> rows]

\* str.strip().str.lower() on the headers that occur in the sheets
StripLower(h) ==
    CASE h = "Timestamp" -> "timestamp"
      [] h = " IP " -> "ip"
      [] h = "Country " -> "country"
      [] h = "Device" -> "device"
      [] h = " browser" -> "browser"
      [] OTHER -> h

\* lines 92-98: the body of load_data().  read_csv numbers the rows 0, 1, ...
FetchBody(src) ==
    IF src.kind = "down"
    THEN EmptyFrame
    ELSE [columns |-> {StripLower(h) : h \in src.columns},
          rows |-> [i \in DOMAIN src.rows |->
                      [index |-> i - 1,
                       timestamp |-> IF "timestamp" \in {StripLower(h) : h \in src.columns}
                                     THEN src.rows[i].timestamp ELSE 0 - 1,
                       country |-> IF "country" \in {StripLower(h) : h \in src.columns}
                                   THEN src.rows[i].country ELSE NaN,
                       device |-> IF "device" \in {StripLower(h) : h \in src.columns}
                                  THEN src.rows[i].device ELSE NaN,
                       browser |-> IF "browser" \in {StripLower(h) : h \in src.columns}
                                   THEN src.rows[i].browser ELSE NaN,
                       lat |-> IF "lat" \in {StripLower(h) : h \in src.columns}
                               THEN src.rows[i].lat ELSE NaN,
                       lon |-> IF "lon" \in {StripLower(h) : h \in src.columns}
                               THEN src.rows[i].lon ELSE NaN]]]

\* an entry dropped one time unit before the ttl is over
CacheValidOneShort(c) == c.kind = "entry" /\ c.age + 1 < TTL

\* an entry is served while it is younger than the ttl
CacheValid(c) == c.kind = "entry" /\ c.age < TTL

\* a cache that stores what the body returns unless the fetch failed
LoadDataForgettingFailure(c, src) ==
    IF CacheValid(c)
    THEN [value |-> c.value, cache |-> c, fetched |-> FALSE]
    ELSE [value |-> FetchBody(src),
          cache |-> IF src.kind = "down" THEN NoEntry
                    ELSE [kind |-> "entry", value |-> FetchBody(src), age |-> 0],
          fetched |-> TRUE]

\* line 90: the decorated call.  The body runs only on a miss, and whatever
\* it returns (the empty frame of the except branch included) is stored.
LoadData(c, src) ==
    IF CacheValid(c)
    THEN [value |-> c.value, cache |-> c, fetched |-> FALSE]
    ELSE [value |-> FetchBody(src),
          cache |-> [kind |-> "entry", value |-> FetchBody(src), age |-> 0],
          fetched |-> TRUE]

---------------------------------------------------------------------------
(* Aggregations of the views *)

RECURSIVE AscendingIn(_, _, _)
\* the elements of S that lie in lo..hi, in increasing order
AscendingIn(S, lo, hi) ==
    IF lo > hi THEN <<>>
    ELSE IF lo = hi THEN (IF lo \in S THEN <<lo>> ELSE <<>>)
    ELSE LET mid == (lo + hi) \div 2
         IN  AscendingIn(S, lo, mid) \o AscendingIn(S, mid + 1, hi)

\* the elements of a finite set of integers in increasing order
Ascending(S) == IF S = {} THEN <<>> ELSE AscendingIn(S, MinOf(S), MaxOf(S))

CountRows(rows, Test(_)) == Len(SelectSeq(rows, Test))

\* a bucket for every date from the first to the last, empty ones included
GroupByDateGapFilled(f) ==
    LET dates == {f.rows[i].date : i \in DOMAIN f.rows}
        keys == IF dates = {} THEN <<>>
                ELSE [k \in 1..(MaxOf(dates) - MinOf(dates) + 1) |-> MinOf(dates) + k - 1]
    IN  [k \in DOMAIN keys |->
           [date |-> keys[k],
            visits |-> CountRows(f.rows, LAMBDA r : r.date = keys[k])]]

\* lines 314, 614-615: groupby('date').size().reset_index(name='visits')
GroupByDate(f) ==
    LET keys == Ascending({f.rows[i].date : i \in DOMAIN f.rows})
    IN  [k \in DOMAIN keys |->
           [date |-> keys[k],
            visits |-> CountRows(f.rows, LAMBDA r : r.date = keys[k])]]

\* lines 330, 593: groupby('hour').size().reset_index(name='visits')
GroupByHour(f) ==
    LET keys == Ascending({f.rows[i].hour : i \in DOMAIN f.rows})
    IN  [k \in DOMAIN keys |->
           [hour |-> keys[k],
            visits |-> CountRows(f.rows, LAMBDA r : r.hour = keys[k])]]

\* line 563, first half: filtered_df['day_name'].value_counts(), a series
\* indexed by the day names that occur
DayValueCounts(f) ==
    [day \in {f.rows[i].day_name : i \in DOMAIN f.rows} |->
        CountRows(f.rows, LAMBDA r : r.day_name = day)]

\* Series.reindex(labels): the labels in the given order, NaN for a label
\* the series does not hold
Reindex(series, labels) ==
    [i \in DOMAIN labels |->
        [Day |-> labels[i],
         Visits |-> IF labels[i] \in DOMAIN series THEN series[labels[i]] ELSE NaN]]

\* lines 562-564
DayData(f) == Reindex(DayValueCounts(f), day_order)

\* line 612: the guard of the rolling-average branch
TrendComputed(f) == Len(f.rows) > 7

RECURSIVE SumVisits(_, _, _)
SumVisits(daily, lo, hi) ==
    IF lo > hi THEN 0 ELSE daily[lo].visits + SumVisits(daily, lo + 1, hi)

\* line 616: rolling(window=min(7, n), center=True).mean(); the mean is kept
\* as the pair <<sum, window>>, NaN where the centred window leaves the data
RollingAvg(daily) ==
    LET n == Len(daily)
        w == IF n < 7 THEN n ELSE 7
        off == (w - 1) \div 2
    IN  [i \in 1..n |->
           IF i + off - w + 1 >= 1 /\ i + off <= n
           THEN <<SumVisits(daily, i + off - w + 1, i + off), w>>
           ELSE NaN]

\* lines 612-646
TrendView(f) ==
    IF TrendComputed(f)
    THEN [shown |-> "chart",
          daily_visits |-> GroupByDate(f),
          rolling_avg |-> RollingAvg(GroupByDate(f))]
    ELSE [shown |-> "Not enough data points for trend analysis (minimum 7 days required)"]

\* the cell of a row in one of the three categorical columns
Cell(r, col) ==
    IF col = "country" THEN r.country ELSE IF col = "device" THEN r.device ELSE r.browser

\* lines 488, 522, 541: filtered_df[col].value_counts(), a series indexed by
\* the values that occur, blank cells left out.  Fewer values are drawn than
\* head(10) and head(8) keep.
ValueCounts(f, col) ==
    [v \in ColumnValues(f, col) |-> CountRows(f.rows, LAMBDA r : Cell(r, col) = v)]

\* lines 488-498: the chart of the country counts is drawn whatever they are
CountryChart(f) == [shown |-> "chart", data |-> ValueCounts(f, "country")]

\* lines 520-536, 539-553: the chart of an optional column is drawn when the
\* column exists
OptionalChart(f, col, absent) ==
    IF col \in f.columns
    THEN [shown |-> "chart", data |-> ValueCounts(f, col)]
    ELSE [shown |-> absent]

\* lines 473-646
AnalyticsView(f) ==
    IF Len(f.rows) = 0
    THEN [kind |-> "analytics", shown |-> "No data available for the selected filters."]
    ELSE [kind |-> "analytics", shown |-> "tabs",
          country_data |-> CountryChart(f),
          device_data |-> OptionalChart(f, "device",
                              "Device data not available in your Google Sheet"),
          browser_data |-> OptionalChart(f, "browser",
                               "Browser data not available in your Google Sheet"),
          day_data |-> DayData(f),
          hour_data |-> GroupByHour(f),
          trend |-> TrendView(f)]

---------------------------------------------------------------------------
(* Data Table: search, sort, paginate, lines 648-703 *)

\* The search terms typed are "" (no search), a whole cell value, or a term
\* no cell contains; for these str.contains(term, case=False) is equality
\* with the cell.
CellContains(cell, term) == cell = term

\* lines 665-671
SearchFilter(f, search_term) ==
    IF search_term # ""
    THEN [f EXCEPT !.rows = SelectSeq(f.rows,
              LAMBDA r : \/ CellContains(r.country, search_term)
                         \/ CellContains(r.device, search_term)
                         \/ CellContains(r.browser, search_term)
                         \/ CellContains(r.day_name, search_term))]
    ELSE f

RemoveAt(rows, i) == SubSeq(rows, 1, i - 1) \o SubSeq(rows, i + 1, Len(rows))

RECURSIVE Orders(_)
\* every order of the rows of a sequence
Orders(rows) ==
    IF Len(rows) <= 1
    THEN {rows}
    ELSE UNION {{<<rows[i]>> \o rest : rest \in Orders(RemoveAt(rows, i))} : i \in DOMAIN rows}

RECURSIVE KeyedOrders(_, _)
\* the sequences that run through the keys in the order given and, within
\* a key, through the rows of that timestamp in any order
KeyedOrders(rows, keys) ==
    IF keys = <<>>
    THEN {<<>>}
    ELSE IF Len(keys) = 1
    THEN Orders(SelectSeq(rows, LAMBDA r : r.timestamp = keys[1]))
    ELSE LET half == Len(keys) \div 2
         IN  {first \o rest :
                first \in KeyedOrders(rows, SubSeq(keys, 1, half)),
                rest \in KeyedOrders(rows, SubSeq(keys, half + 1, Len(keys)))}

Reverse(s) == [i \in DOMAIN s |-> s[Len(s) + 1 - i]]

\* lines 674-677: sort_values('timestamp', ascending=...) with the default
\* kind='quicksort', which promises no order among equal keys: the set of
\* the frames it may return
SortValues(rows, ascending) ==
    LET keys == Ascending({rows[i].timestamp : i \in DOMAIN rows})
    IN  KeyedOrders(rows, IF ascending THEN keys ELSE Reverse(keys))

page_sizes == {10, 25, 50, 100}

\* the page count taken as quotient plus one
TotalPagesQuotientPlusOne(total_rows, show_rows) ==
    IF total_rows > 0 THEN total_rows \div show_rows + 1 ELSE 1

\* line 681
TotalPages(total_rows, show_rows) ==
    IF total_rows > 0 THEN (total_rows - 1) \div show_rows + 1 ELSE 1

\* line 692
StartIdx(page, show_rows) == (page - 1) * show_rows

\* the end of the slice taken as the last row to show, one too far
EndIdxInclusive(page, show_rows) == StartIdx(page, show_rows) + show_rows + 1

\* line 693
EndIdx(page, show_rows) == StartIdx(page, show_rows) + show_rows

\* line 697: display_df.iloc[start_idx:end_idx]; a slice stops at the end
PageSlice(rows, page, show_rows) ==
    SubSeq(rows, StartIdx(page, show_rows) + 1,
           IF EndIdx(page, show_rows) < Len(rows) THEN EndIdx(page, show_rows) ELSE Len(rows))

---------------------------------------------------------------------------
(* Widget state.  A widget created with a key keeps its value under that   *)
(* key in st.session_state; a widget created without one keeps it while    *)
(* the call that creates it has the same arguments.  The state of a widget *)
(* that a script run did not create is dropped at the end of that run.     *)

Get(fn, key, default) == IF key \in DOMAIN fn THEN fn[key] ELSE default

Restrict(fn, keys) == [k \in DOMAIN fn \cap keys |-> fn[k]]

\* a selectbox created with a key: the stored value, or the first option
Selected(ss, key, options) ==
    IF key \in DOMAIN ss /\ ss[key] \in options THEN ss[key] ELSE ALL

\* lines 192-197: the date_input has no key; its arguments are the default
\* value and the two limits, all taken from df
DateRangeValue(w, d) ==
    IF /\ "date_range" \in DOMAIN w
       /\ w["date_range"].min_value = DateMin(d)
       /\ w["date_range"].max_value = DateMax(d)
    THEN w["date_range"].value
    ELSE <<DateMin(d), DateMax(d)>>

\* lines 192-221: the predicate set the sidebar widgets return
ReadFilters(ss, w, d) ==
    [date_range |-> DateRangeValue(w, d),
     country |-> Selected(ss, "filter_country", SelectOptions(d, "country")),
     device |-> IF "device" \in d.columns
                THEN Selected(ss, "filter_device", SelectOptions(d, "device"))
                ELSE ALL,
     browser |-> IF "browser" \in d.columns
                 THEN Selected(ss, "filter_browser", SelectOptions(d, "browser"))
                 ELSE ALL,
     time_filter |-> Get(w, "time_filter", ALL_DAY)]

\* lines 192-221: every predicate set the sidebar widgets can return for df
PredicateChoices(d) ==
    [date_range : DateRangeChoices(d),
     country : SelectOptions(d, "country"),
     device : IF "device" \in d.columns THEN SelectOptions(d, "device") ELSE {ALL},
     browser : IF "browser" \in d.columns THEN SelectOptions(d, "browser") ELSE {ALL},
     time_filter : Range(time_options)]

\* the keys of the filter widgets the sidebar creates for df
FilterKeys(d) ==
    IF Len(d.rows) > 0
    THEN {"filter_country"}
           \cup (IF "device" \in d.columns THEN {"filter_device"} ELSE {})
           \cup (IF "browser" \in d.columns THEN {"filter_browser"} ELSE {})
    ELSE {}

\* st.session_state after the sidebar: the keyed widgets created hold their
\* value, those not created are dropped, other keys stay
SessionAfterFilters(ss, d, P) ==
    [k \in (DOMAIN ss \ {"filter_country", "filter_device", "filter_browser"})
              \cup FilterKeys(d) |->
        IF k = "filter_country" THEN P.country
        ELSE IF k = "filter_device" THEN P.device
        ELSE IF k = "filter_browser" THEN P.browser
        ELSE ss[k]]

\* the unkeyed sidebar widgets after the sidebar
SidebarWidgets(w, d, P) ==
    IF Len(d.rows) > 0
    THEN ("navigation" :> Get(w, "navigation", "Overview"))
           @@ ("date_range" :> [value |-> P.date_range,
                                min_value |-> DateMin(d), max_value |-> DateMax(d)])
           @@ ("time_filter" :> P.time_filter)
    ELSE ("navigation" :> Get(w, "navigation", "Overview"))

---------------------------------------------------------------------------
(* The views, lines 259-757.  Each gives the set of its possible outcomes  *)
(* [view, widgets, filtered]: what it shows, the unkeyed widgets it        *)
(* creates, and filtered_df as it leaves it.                               *)

\* .dt.isocalendar().week, day 0 being the Monday of ISO week 1
WeekOf(t) == (DateOf(t) \div 7) + 1

\* line 343: filtered_df['week'] = ...
AddWeek(f) ==
    [columns |-> f.columns \cup {"week"},
     rows |-> [i \in DOMAIN f.rows |->
                 [index |-> f.rows[i].index, timestamp |-> f.rows[i].timestamp,
                  country |-> f.rows[i].country, device |-> f.rows[i].device,
                  browser |-> f.rows[i].browser, lat |-> f.rows[i].lat,
                  lon |-> f.rows[i].lon, date |-> f.rows[i].date,
                  hour |-> f.rows[i].hour, day_name |-> f.rows[i].day_name,
                  week |-> WeekOf(f.rows[i].timestamp)]]]

\* line 344: groupby('week').size().reset_index(name='visits')
GroupByWeek(f) ==
    LET keys == Ascending({f.rows[i].week : i \in DOMAIN f.rows})
    IN  [k \in DOMAIN keys |->
           [week |-> keys[k],
            visits |-> CountRows(f.rows, LAMBDA r : r.week = keys[k])]]

\* lines 260-361
OverviewView(f, w) ==
    IF Len(f.rows) > 0
    THEN LET chart_type == Get(w, "chart_type", "Daily")
         IN {[view |-> [kind |-> "overview", total_visits |-> Len(f.rows),
                        shown |-> "chart", chart_type |-> chart_type,
                        time_data |-> IF chart_type = "Daily" THEN GroupByDate(f)
                                      ELSE IF chart_type = "Hourly" THEN GroupByHour(f)
                                      ELSE GroupByWeek(AddWeek(f))],
              widgets |-> ("chart_type" :> chart_type),
              filtered |-> IF chart_type = "Weekly" THEN AddWeek(f) ELSE f]}
    ELSE {[view |-> [kind |-> "overview", total_visits |-> 0,
                     shown |-> "No data available for the selected filters."],
           widgets |-> <<>>,
           filtered |-> f]}

\* the coordinate cells that read as numbers
NumericCells == {"48.85", "2.35", "40.71", "-74.00"}

\* lines 384-385: pd.to_numeric(errors='coerce') of a cell
ToNumeric(cell) == IF cell \in NumericCells THEN cell ELSE NaN

\* lines 383-386: the rows whose lat and lon are present and numeric
MapDf(f) ==
    SelectSeq(SelectSeq(f.rows, LAMBDA r : r.lat # NaN /\ r.lon # NaN),
              LAMBDA r : ToNumeric(r.lat) # NaN /\ ToNumeric(r.lon) # NaN)

\* lines 363-471 (the map style box of line 377 changes the tiles only)
MapView(f, w) ==
    {[view |-> IF ~("lat" \in f.columns /\ "lon" \in f.columns)
               THEN [kind |-> "map",
                     shown |-> "Location data (lat/lon columns) not found"]
               ELSE IF MapDf(f) # <<>>
               THEN [kind |-> "map", shown |-> "map", map_df |-> MapDf(f)]
               ELSE [kind |-> "map", map_df |-> <<>>,
                     shown |-> "No valid location data available for the selected filters."],
      widgets |-> <<>>,
      filtered |-> f]}

\* lines 685-690: the number_input has no key; its label and max_value hold
\* total_pages
PageValue(w, total_pages) ==
    IF "page" \in DOMAIN w /\ w["page"].max_value = total_pages
    THEN w["page"].value
    ELSE 1

\* lines 648-703
TableView(f, w) ==
    IF Len(f.rows) = 0
    THEN {[view |-> [kind |-> "table", shown |-> "No data matches your current filters."],
           widgets |-> <<>>,
           filtered |-> f]}
    ELSE LET search_term == Get(w, "search_term", "")
             show_rows == Get(w, "show_rows", 25)
             sort_order == Get(w, "sort_order", "Newest first")
             searched == SearchFilter(f, search_term)
             total_rows == Len(searched.rows)
             total_pages == TotalPages(total_rows, show_rows)
             page == PageValue(w, total_pages)
         IN {[view |-> [kind |-> "table",
                        shown |-> IF total_rows > 0 THEN "dataframe"
                                  ELSE "No data matches your search criteria.",
                        searched |-> searched.rows,
                        sort_order |-> sort_order,
                        display_df |-> sorted,
                        total_rows |-> total_rows,
                        total_pages |-> total_pages,
                        show_rows |-> show_rows,
                        page |-> page,
                        start_idx |-> StartIdx(page, show_rows),
                        end_idx |-> EndIdx(page, show_rows),
                        page_rows |-> IF total_rows > 0
                                      THEN PageSlice(sorted, page, show_rows)
                                      ELSE <<>>],
              widgets |-> ("search_term" :> search_term) @@ ("show_rows" :> show_rows)
                            @@ ("sort_order" :> sort_order)
                            @@ ("page" :> [value |-> page, max_value |-> total_pages]),
              filtered |-> f] :
                sorted \in SortValues(searched.rows, sort_order # "Newest first")}

\* lines 705-757
SettingsView(f, d, w) ==
    {[view |-> [kind |-> "settings", total_records |-> Len(d.rows),
                filtered_records |-> Len(f.rows),
                refresh_button |-> Get(w, "auto_refresh", FALSE)],
      widgets |-> ("auto_refresh" :> Get(w, "auto_refresh", FALSE)),
      filtered |-> f]}

\* lines 260, 363, 473, 648, 705: the branch the navigation box selects
View(navigation, f, d, w) ==
    IF navigation = "Overview" THEN OverviewView(f, w)
    ELSE IF navigation = "Map View" THEN MapView(f, w)
    ELSE IF navigation = "Analytics"
    THEN {[view |-> AnalyticsView(f), widgets |-> <<>>, filtered |-> f]}
    ELSE IF navigation = "Data Table" THEN TableView(f, w)
    ELSE SettingsView(f, d, w)

---------------------------------------------------------------------------
(* One run of the script from line 159 on, for the session state and the   *)
(* widget state the sidebar head (lines 125-157) leaves.                   *)

\* the widget state a run leaves when it ends at line 147, 151, 157, 164 or
\* 174, having created the navigation box and the buttons only
EarlySession(ss, rt) ==
    IF rt = "drops"
    THEN Restrict(ss, DOMAIN ss \ {"filter_country", "filter_device", "filter_browser"})
    ELSE ss

EarlyWidgets(w, rt) ==
    IF rt = "drops"
    THEN ("navigation" :> Get(w, "navigation", "Overview"))
    ELSE ("navigation" :> Get(w, "navigation", "Overview")) @@ w

\* lines 159-757: the set of outcomes of the run
ScriptOutcomes(ss, w, c, src, rt) ==
    LET ld == LoadData(c, src)
        nav == Get(w, "navigation", "Overview")
    IN  IF IsEmpty(ld.value)
        THEN \* lines 162-164
             {[cache |-> ld.cache, fetched |-> ld.fetched, df |-> ld.value,
               filtered_df |-> EmptyFrame,
               out |-> [halted |-> "empty", loaded |-> ld.value,
                        shown |-> "No data available. Please check your Google Sheet connection."],
               session_state |-> EarlySession(ss, rt),
               widgets |-> EarlyWidgets(w, rt)]}
        ELSE IF required_cols \ ld.value.columns # {}
        THEN \* lines 167-174
             {[cache |-> ld.cache, fetched |-> ld.fetched, df |-> ld.value,
               filtered_df |-> EmptyFrame,
               out |-> [halted |-> "schema", loaded |-> ld.value,
                        missing_cols |-> required_cols \ ld.value.columns,
                        available_cols |-> ld.value.columns],
               session_state |-> EarlySession(ss, rt),
               widgets |-> EarlyWidgets(w, rt)]}
        ELSE LET d == Preprocess(ld.value)
                 P == IF Len(d.rows) > 0 THEN ReadFilters(ss, w, d)
                      ELSE [date_range |-> <<>>, country |-> ALL, device |-> ALL,
                            browser |-> ALL, time_filter |-> ALL_DAY]
                 f == ApplyFilters(d, P)
             IN {[cache |-> ld.cache, fetched |-> ld.fetched,
                  df |-> DfAfterView(d, P, v.filtered),
                  filtered_df |-> v.filtered,
                  out |-> [halted |-> "no", loaded |-> ld.value, filters |-> P,
                           view |-> v.view],
                  session_state |-> SessionAfterFilters(ss, d, P),
                  widgets |-> SidebarWidgets(w, d, P) @@ v.widgets] :
                    v \in View(nav, f, d, w)}

\* the script runs from line 159 to one of its outcomes
Run(ss, w, c, ev) ==
    \E r \in ScriptOutcomes(ss, w, c, source, runtime) :
        /\ cache' = r.cache
        /\ fetched' = r.fetched
        /\ df' = r.df
        /\ filtered_df' = r.filtered_df
        /\ out' = r.out
        /\ session_state' = r.session_state
        /\ widgets' = r.widgets
        /\ event' = ev
        /\ UNCHANGED <<source, runtime>>

\* st.rerun() at line 147, 151 or 157: the run ends there and the script
\* runs again with no button pressed
RerunFromSidebar(ss, w, c, ev) ==
    Run(EarlySession(ss, runtime), EarlyWidgets(w, runtime), c, ev)

---------------------------------------------------------------------------
(* The sheets a deployment may serve *)

\* a visit with its coordinates, and a visit whose coordinate cells are blank
RowAt(t, c, d, b, lat, lon) ==
    [timestamp |-> t, country |-> c, device |-> d, browser |-> b, lat |-> lat, lon |-> lon]

Row(t, c, d, b) == RowAt(t, c, d, b, NaN, NaN)

SeqsOver(S, lo, hi) == UNION {[1..n -> S] : n \in lo..hi}

AllHeaders == {"Timestamp", " IP ", "Country ", "Device", " browser"}

\* the sheets of the cache and session specification
Sheets ==
    {Sheet(AllHeaders, <<Row(6, "US", "Mobile", "Chrome"), Row(36, "FR", "Desktop", "Chrome")>>),
     Sheet(AllHeaders, <<Row(6, "US", "Mobile", "Chrome"), Row(0 - 1, "FR", "Desktop", "Chrome"),
                         Row(47, "US", NaN, "Safari")>>),
     Sheet({"Timestamp", " IP "}, <<Row(6, "US", "Mobile", "Chrome")>>),
     Sheet(AllHeaders, <<>>)}

\* the hours at the two ends of each time-of-day bucket
BoundaryHours == {0, 5, 6, 11, 12, 17, 18, 23}

\* the sheets of the filter specification: every one-row sheet of day 0 ...
OneRowSheets ==
    {Sheet(AllHeaders, <<Row(h, c, d, b)>>) :
        h \in BoundaryHours, c \in {"US", "FR", NaN},
        d \in {"Mobile", "Desktop", NaN}, b \in {"Chrome", NaN}}

\* ... and every log of 2..MaxRows visits on different days, one visit per
\* day at most, with or without the optional columns
DayVisit(day) ==
    Row(24 * day + (IF day % 3 = 0 THEN 6 ELSE IF day % 3 = 1 THEN 12 ELSE 23),
        IF day % 2 = 0 THEN "US" ELSE "FR",
        IF day % 3 = 0 THEN "Mobile" ELSE IF day % 3 = 1 THEN "Desktop" ELSE NaN,
        IF day % 3 = 2 THEN "Safari" ELSE "Chrome")

\* the visits of a set of days in the order of the days
VisitLog(days) == [i \in 1..Cardinality(days) |-> DayVisit(Ascending(days)[i])]

ManyRowSheets ==
    {Sheet(hs, VisitLog(days)) :
        hs \in {AllHeaders, {"Timestamp", " IP ", "Country "}},
        days \in {D \in SUBSET (0..MaxDate) : Cardinality(D) >= 2 /\ Cardinality(D) <= MaxRows}}

FilterSheets == OneRowSheets \cup ManyRowSheets

\* the sheets of the composition specification: the log of the first
\* 2..MaxRows days
ComposeSheets ==
    {Sheet(hs, VisitLog(0..k)) :
        hs \in {AllHeaders, {"Timestamp", " IP ", "Country "}}, k \in 1..(MaxRows - 1)}

\* the sheets of the analytics specification: n visits spread over the
\* first d days, visit i on day (i - 1) mod d
SpreadLog(n, d) ==
    [i \in 1..n |->
        Row(24 * ((i - 1) % d) + (IF i % 2 = 0 THEN 9 ELSE 20),
            IF i % 3 = 0 THEN "FR" ELSE "US", "Mobile", "Chrome")]

AnalyticsSheets ==
    {Sheet(AllHeaders, SpreadLog(n, d)) : n \in 1..MaxTrendRows, d \in 1..MaxTrendRows}

\* the sheets of the table specification: every log of 1..MaxTieRows visits
\* at two instants, so that timestamps tie ...
TieSheets ==
    {Sheet(AllHeaders, [i \in DOMAIN ts |-> Row(ts[i], "US", "Mobile", "Chrome")]) :
        ts \in SeqsOver({6, 30}, 1, MaxTieRows)}

\* ... and logs of one visit per hour, out of order, whose lengths are a
\* page size, one more than a page size, or the longest length drawn
LongLog(n) ==
    [i \in 1..n |->
        Row(IF i % 2 = 0 THEN i - 2 ELSE i, IF i % 2 = 0 THEN "US" ELSE "FR",
            IF i % 5 = 0 THEN "Mobile" ELSE "Desktop", "Chrome")]

LongSheets ==
    {Sheet(AllHeaders, LongLog(n)) :
        n \in {m \in 1..MaxTableRows :
                  m = MaxTableRows \/ \E ps \in page_sizes : m = ps \/ m = ps + 1}}

TableSheets == TieSheets \cup LongSheets

\* the sheets of the schema specification: every choice of at least one
\* header cell (read_csv raises on a file without a header line), over no
\* visit or one visit
SchemaSheets ==
    {Sheet(hs, rows) :
        hs \in (SUBSET AllHeaders) \ {{}},
        rows \in {<<>>, <<Row(6, "US", "Mobile", "Chrome")>>}}

\* the sheets of the views specification: with and without the coordinate
\* columns, every log of 1..MaxViewRows visits out of three: one complete,
\* one with blank country, device and coordinates, one with a coordinate
\* that is no number and a blank browser
ViewRows ==
    {RowAt(6, "US", "Mobile", "Chrome", "48.85", "2.35"),
     RowAt(30, NaN, NaN, "Chrome", NaN, NaN),
     RowAt(13, "FR", "Desktop", NaN, "n/a", "-74.00")}

\* day 0 being Monday 2024-01-01: visits of 2024-01-01 10:00 (US),
\* 2024-01-01 14:00 (US) and 2024-01-02 09:00 (FR) ...
ScenarioLog ==
    <<Row(10, "US", "Mobile", "Chrome"), Row(14, "US", "Desktop", "Chrome"),
      Row(33, "FR", "Mobile", "Chrome")>>

\* ... and visits that leave 2024-01-02 out, the later ones first
GapLog ==
    <<Row(58, "US", "Mobile", "Chrome"), Row(10, "US", "Mobile", "Chrome"),
      Row(50, "FR", "Mobile", "Chrome")>>

ViewSheets ==
    {Sheet(hs, rows) :
        hs \in {AllHeaders, AllHeaders \cup {"lat", "lon"}},
        rows \in SeqsOver(ViewRows, 1, MaxViewRows)}
      \cup {Sheet(AllHeaders, ScenarioLog), Sheet(AllHeaders, GapLog)}

---------------------------------------------------------------------------
(* Events *)

\* the page is opened or reloaded by an interaction that changes no state
\* modelled here (line 724, the expander of line 770)
Rerun ==
    /\ Run(session_state, widgets, cache, "rerun")

\* line 130
NavigateTo(n) ==
    /\ out.halted # "start"
    /\ n # Get(widgets, "navigation", "Overview")
    /\ Run(session_state, ("navigation" :> n) @@ widgets, cache, "navigate")

Navigate ==
    \E n \in {"Overview", "Map View", "Analytics", "Data Table", "Settings"} : NavigateTo(n)

\* line 201
SelectCountry ==
    /\ "filter_country" \in DOMAIN session_state
    /\ out.halted = "no"
    /\ \E v \in SelectOptions(df, "country") :
          /\ v # session_state["filter_country"]
          /\ Run(("filter_country" :> v) @@ session_state, widgets, cache, "filter")

\* line 206
SelectDevice ==
    /\ "filter_device" \in DOMAIN session_state
    /\ out.halted = "no"
    /\ \E v \in SelectOptions(df, "device") :
          /\ v # session_state["filter_device"]
          /\ Run(("filter_device" :> v) @@ session_state, widgets, cache, "filter")

\* line 213
SelectBrowser ==
    /\ "filter_browser" \in DOMAIN session_state
    /\ out.halted = "no"
    /\ \E v \in SelectOptions(df, "browser") :
          /\ v # session_state["filter_browser"]
          /\ Run(("filter_browser" :> v) @@ session_state, widgets, cache, "filter")

\* line 192
SelectDateRange ==
    /\ "date_range" \in DOMAIN widgets
    /\ out.halted = "no"
    /\ \E v \in DateRangeChoices(df) :
          /\ v # widgets["date_range"].value
          /\ Run(session_state,
                 ("date_range" :> [widgets["date_range"] EXCEPT !.value = v]) @@ widgets,
                 cache, "filter")

\* line 218
SelectTime ==
    /\ "time_filter" \in DOMAIN widgets
    /\ out.halted = "no"
    /\ \E v \in Range(time_options) :
          /\ v # widgets["time_filter"]
          /\ Run(session_state, ("time_filter" :> v) @@ widgets, cache, "filter")

\* line 307
SelectChartType ==
    /\ "chart_type" \in DOMAIN widgets
    /\ out.halted = "no"
    /\ \E v \in {"Daily", "Hourly", "Weekly"} :
          /\ v # widgets["chart_type"]
          /\ Run(session_state, ("chart_type" :> v) @@ widgets, cache, "chart")

\* line 658
TypeSearch ==
    /\ "search_term" \in DOMAIN widgets
    /\ out.halted = "no"
    /\ \E v \in {"", "US", "Mobile", "zz"} :
          /\ v # widgets["search_term"]
          /\ Run(session_state, ("search_term" :> v) @@ widgets, cache, "table")

\* line 660
SelectShowRows ==
    /\ "show_rows" \in DOMAIN widgets
    /\ out.halted = "no"
    /\ \E v \in page_sizes :
          /\ v # widgets["show_rows"]
          /\ Run(session_state, ("show_rows" :> v) @@ widgets, cache, "table")

\* line 662
SelectSortOrder ==
    /\ "sort_order" \in DOMAIN widgets
    /\ out.halted = "no"
    /\ \E v \in {"Newest first", "Oldest first"} :
          /\ v # widgets["sort_order"]
          /\ Run(session_state, ("sort_order" :> v) @@ widgets, cache, "table")

\* lines 685-690: the number_input takes a value in min_value..max_value
SelectPage ==
    /\ "page" \in DOMAIN widgets
    /\ out.halted = "no"
    /\ \E v \in 1..widgets["page"].max_value :
          /\ v # widgets["page"].value
          /\ Run(session_state,
                 ("page" :> [widgets["page"] EXCEPT !.value = v]) @@ widgets,
                 cache, "table")

\* line 714
ToggleAutoRefresh ==
    /\ "auto_refresh" \in DOMAIN widgets
    /\ out.halted = "no"
    /\ Run(session_state, ("auto_refresh" :> ~widgets["auto_refresh"]) @@ widgets,
           cache, "settings")

\* lines 718-720: st.cache_data.clear() and st.rerun(), every widget of the
\* page being created already
RefreshNow ==
    /\ "auto_refresh" \in DOMAIN widgets
    /\ out.halted = "no"
    /\ widgets["auto_refresh"]
    /\ Run(session_state, widgets, NoEntry, "refresh")

\* a clear that deletes the filter keys and leaves the confirmation flag
ClearedSessionKeepingFlag(ss) ==
    Restrict(ss, {k \in DOMAIN ss :
                     k \notin {"filter_country", "filter_device", "filter_browser"}})

\* lines 108-114 of clear_analytics_data(): the keys that start with
\* 'filter_' and the key 'confirm_clear' are deleted
ClearedSession(ss) ==
    Restrict(ss, {k \in DOMAIN ss :
                     k \notin {"filter_country", "filter_device", "filter_browser"}
                     /\ k # "confirm_clear"})

\* lines 142-148, first click seen with confirm_clear set.  Either
\* clear_analytics_data() returns True and line 147 reruns the script, or
\* st.cache_data.clear() raises, the except branch returns False, line 148
\* stores False and the run goes on.
ClickClearConfirmed ==
    /\ Get(session_state, "confirm_clear", FALSE)
    /\ \/ RerunFromSidebar(ClearedSession(session_state), widgets, NoEntry, "clear")
       \/ Run(("confirm_clear" :> FALSE) @@ session_state, widgets, cache, "clear_failed")

\* lines 142-143, 149-151
ClickClearFirst ==
    /\ out.halted # "start"
    /\ ~Get(session_state, "confirm_clear", FALSE)
    /\ RerunFromSidebar(("confirm_clear" :> TRUE) @@ session_state, widgets, cache, "confirm")

\* lines 153-157
ClickCancel ==
    /\ Get(session_state, "confirm_clear", FALSE)
    /\ RerunFromSidebar(("confirm_clear" :> FALSE) @@ session_state, widgets, cache, "cancel")

\* a unit of time passes; an expired entry does not age further
Tick ==
    /\ cache.kind = "entry"
    /\ cache.age < TTL
    /\ cache' = [cache EXCEPT !.age = @ + 1]
    /\ event' = "tick"
    /\ UNCHANGED <<source, session_state, widgets, fetched, df, filtered_df, out, runtime>>

\* the sheet becomes unreachable or unparsable
SourceFails ==
    /\ source.kind = "sheet"
    /\ source' = Down
    /\ event' = "source"
    /\ UNCHANGED <<cache, session_state, widgets, fetched, df, filtered_df, out, runtime>>

\* the sheet is served (again), possibly edited
SourceServes ==
    /\ \E sh \in Sheets : sh # source /\ source' = sh
    /\ event' = "source"
    /\ UNCHANGED <<cache, session_state, widgets, fetched, df, filtered_df, out, runtime>>

---------------------------------------------------------------------------
(* Specifications *)

\* the server is started and no browser has opened the page yet
InitSession(sheets, runtimes) ==
    /\ source \in sheets
    /\ cache = NoEntry
    /\ session_state = <<>>
    /\ widgets = <<>>
    /\ event = "start"
    /\ fetched = FALSE
    /\ df = EmptyFrame
    /\ filtered_df = EmptyFrame
    /\ out = [halted |-> "start", loaded |-> EmptyFrame]
    /\ runtime \in runtimes

Init == InitSession(Sheets \cup {Down}, {"keeps", "drops"})

\* the cache over time: page loads, clear / cancel, Refresh Now
Next ==
    \/ Rerun
    \/ NavigateTo("Settings")
    \/ NavigateTo("Overview")
    \/ ToggleAutoRefresh
    \/ RefreshNow
    \/ ClickClearFirst
    \/ ClickClearConfirmed
    \/ ClickCancel
    \/ Tick
    \/ SourceFails
    \/ SourceServes

Spec == Init /\ [][Next]_vars

\* the sidebar of one browser session: filters and clear / cancel
NextSession ==
    \/ Rerun
    \/ SelectDateRange
    \/ SelectCountry
    \/ SelectDevice
    \/ SelectBrowser
    \/ SelectTime
    \/ ClickClearFirst
    \/ ClickClearConfirmed
    \/ ClickCancel

SpecSession == Init /\ [][NextSession]_vars

\* the filter stage over the sheets of FilterSheets
InitFilter == InitSession(FilterSheets, {"keeps"})

NextFilter ==
    \/ Rerun
    \/ SelectDateRange
    \/ SelectCountry
    \/ SelectDevice
    \/ SelectBrowser
    \/ SelectTime

SpecFilter == InitFilter /\ [][NextFilter]_vars

\* the filter stage over the sheets of ComposeSheets
InitCompose == InitSession(ComposeSheets, {"keeps"})

SpecCompose == InitCompose /\ [][NextFilter]_vars

\* the Analytics view over the sheets of AnalyticsSheets
InitAnalytics == InitSession(AnalyticsSheets, {"keeps"})

NextAnalytics ==
    \/ Rerun
    \/ NavigateTo("Analytics")
    \/ SelectCountry
    \/ SelectTime

SpecAnalytics == InitAnalytics /\ [][NextAnalytics]_vars

\* the Data Table view over the sheets of TableSheets
InitTable == InitSession(TableSheets, {"keeps"})

NextTable ==
    \/ Rerun
    \/ NavigateTo("Data Table")
    \/ TypeSearch
    \/ SelectShowRows
    \/ SelectSortOrder
    \/ SelectPage

SpecTable == InitTable /\ [][NextTable]_vars

\* the five views over the sheets of ViewSheets
InitViews == InitSession(ViewSheets, {"keeps"})

NextViews ==
    \/ Rerun
    \/ Navigate
    \/ SelectDateRange
    \/ SelectCountry
    \/ SelectTime
    \/ SelectChartType
    \/ TypeSearch

SpecViews == InitViews /\ [][NextViews]_vars

\* the checks of lines 162-174 over the sheets of SchemaSheets
InitSchema == InitSession(SchemaSheets, {"keeps", "drops"})

NextSchema ==
    \/ Rerun
    \/ Navigate
    \/ SelectCountry

SpecSchema == InitSchema /\ [][NextSchema]_vars

---------------------------------------------------------------------------
(* The filter stage against its contract *)

\* the hours of a time-of-day bucket as the contract lists them
BucketHours(time_filter) ==
    IF time_filter = MORNING THEN 6..11
    ELSE IF time_filter = AFTERNOON THEN 12..17
    ELSE IF time_filter = EVENING THEN 18..23
    ELSE IF time_filter = NIGHT THEN 0..5
    ELSE 0..23

\* row r satisfies every active predicate of the predicate set P
Satisfies(r, P) ==
    /\ Len(P.date_range) = 2 => (P.date_range[1] <= r.date /\ r.date <= P.date_range[2])
    /\ P.country # ALL => r.country = P.country
    /\ P.device # ALL => r.device = P.device
    /\ P.browser # ALL => r.browser = P.browser
    /\ r.hour \in BucketHours(P.time_filter)

\* C1: whenever the filter stage has run on a loaded set with a complete
\* date range [start, end], filtered_df holds exactly the loaded rows that
\* satisfy all active predicates (both ends of the range included, "All" and
\* "All Day" constraining nothing), and the predicates are the values the
\* sidebar widgets hold.
C1_FilteredIsExactlyTheSatisfyingRows ==
    (out.halted = "no" /\ Len(df.rows) > 0 /\ Len(out.filters.date_range) = 2) =>
        /\ filtered_df.rows = SelectSeq(df.rows, LAMBDA r : Satisfies(r, out.filters))
        /\ out.filters.date_range = widgets["date_range"].value
        /\ out.filters.time_filter = widgets["time_filter"]
        /\ out.filters.country = session_state["filter_country"]
        /\ out.filters.device = Get(session_state, "filter_device", ALL)
        /\ out.filters.browser = Get(session_state, "filter_browser", ALL)

\* a run in which the date, country and time predicates are all active and
\* split the loaded rows: one row passes, one fails
C1_Witness ==
    /\ out.halted = "no"
    /\ Len(out.filters.date_range) = 2
    /\ out.filters.date_range[1] < out.filters.date_range[2]
    /\ out.filters.country # ALL
    /\ out.filters.time_filter # ALL_DAY
    /\ Len(filtered_df.rows) = 1
    /\ Len(df.rows) = 2

\* C10: filtering the loaded set by the predicate set P1 of the widgets and
\* the result by any predicate set P2 the widgets offer gives the rows that
\* filtering by P2 and then by P1 gives, and these are the loaded rows that
\* satisfy the conjunction of P1 and P2.
C10_FilterOrderIndependent ==
    (out.halted = "no" /\ Len(df.rows) > 0) =>
        \A P2 \in PredicateChoices(df) :
            /\ ApplyFilters(filtered_df, P2).rows
                 = ApplyFilters(ApplyFilters(df, P2), out.filters).rows
            /\ ApplyFilters(filtered_df, P2).rows
                 = SelectSeq(df.rows, LAMBDA r : /\ Satisfies(r, out.filters)
                                                 /\ Satisfies(r, P2))

\* a run whose predicate set constrains the country and leaves one of two
\* loaded rows, so that a second predicate set on the device or the hour
\* meets a set already narrowed
C10_Witness ==
    /\ out.halted = "no"
    /\ out.filters.country # ALL
    /\ out.filters.device = ALL
    /\ out.filters.time_filter # ALL_DAY
    /\ Len(df.rows) = 2
    /\ Len(filtered_df.rows) = 1
    /\ \E P2 \in PredicateChoices(df) :
          /\ P2.device # ALL
          /\ P2.country = ALL
          /\ ApplyFilters(filtered_df, P2).rows = <<>>
          /\ ApplyFilters(df, P2).rows # <<>>

---------------------------------------------------------------------------
(* The cache against its contract *)

\* the step runs the script, and so calls load_data() once
ScriptRuns == event' \notin {"tick", "source"}

\* the cache holds the result of a successful fetch
HoldsGoodSet(c) == c.kind = "entry" /\ c.value.columns # {}

\* C2 as claimed: within the TTL after a successful load every call of
\* load_data() returns the cached set and does not fetch.
C2_Claimed ==
    [][(HoldsGoodSet(cache) /\ cache.age < TTL /\ ScriptRuns) =>
          (~fetched' /\ out'.loaded = cache.value)]_vars

\* C2 amended: within the TTL after a successful load every call of
\* load_data() made in a run that did not clear the cache (confirmed clear,
\* Refresh Now) returns the cached set and does not fetch, and the entry
\* stays as it is, whatever the source has become.
C2_CachedSetServedWithinTTL ==
    [][(HoldsGoodSet(cache) /\ cache.age < TTL /\ ScriptRuns
            /\ event' \notin {"clear", "refresh"}) =>
          (~fetched' /\ out'.loaded = cache.value /\ cache' = cache)]_vars

\* the source went down after a successful load, and a run within the TTL
\* still got the cached rows
C2_Witness ==
    /\ source = Down
    /\ event = "rerun"
    /\ ~fetched
    /\ HoldsGoodSet(cache)
    /\ cache.age > 0
    /\ cache.age < TTL
    /\ out.halted = "no"
    /\ out.loaded = cache.value
    /\ Len(df.rows) > 0

\* C3 as claimed: a run whose fetch fails serves the last good set when an
\* earlier successful load left one (here: still held, expired, by the
\* cache), and shows the empty state and halts only when there is none.
C3_Claimed ==
    [][(ScriptRuns /\ fetched' /\ source = Down) =>
          IF HoldsGoodSet(cache) /\ event' \notin {"clear", "refresh"}
          THEN out'.halted # "empty" /\ out'.loaded = cache.value
          ELSE out'.halted = "empty"]_vars

---------------------------------------------------------------------------
(* Clear against its contract *)

\* the predicate set of untouched widgets
DefaultFilters(d) ==
    [date_range |-> <<DateMin(d), DateMax(d)>>, country |-> ALL, device |-> ALL,
     browser |-> ALL, time_filter |-> ALL_DAY]

\* C4 as claimed: the run a confirmed clear ends in fetches the source
\* again and finds every filter widget (date range, country, device,
\* browser, time of day) at its default.
C4_Claimed ==
    [][event' = "clear" =>
          /\ fetched'
          /\ (out'.halted = "no" /\ Len(df'.rows) > 0) => out'.filters = DefaultFilters(df')]_vars

---------------------------------------------------------------------------
(* The Analytics view against its contract *)

DistinctDates(f) == {f.rows[i].date : i \in DOMAIN f.rows}

AnalyticsTabsShown ==
    out.halted = "no" /\ out.view.kind = "analytics" /\ out.view.shown = "tabs"

\* C5 as claimed: the rolling average is computed exactly when the filtered
\* set holds at least 8 distinct dates, and with fewer the view reports that
\* the data is insufficient.
C5_Claimed ==
    AnalyticsTabsShown =>
        (out.view.trend.shown = "chart" <=> Cardinality(DistinctDates(filtered_df)) >= 8)

\* C6 as claimed: the day-of-week buckets come in the order Monday..Sunday,
\* and a weekday without rows is absent or has the count 0, never a missing
\* count.
C6_Claimed ==
    AnalyticsTabsShown =>
        /\ \A i \in DOMAIN out.view.day_data :
              \A j \in DOMAIN out.view.day_data :
                 i < j => \E a, b \in DOMAIN day_order :
                             /\ a < b
                             /\ day_order[a] = out.view.day_data[i].Day
                             /\ day_order[b] = out.view.day_data[j].Day
        /\ \A i \in DOMAIN out.view.day_data :
              CountRows(filtered_df.rows, LAMBDA r : r.day_name = out.view.day_data[i].Day) = 0
                 => out.view.day_data[i].Visits # NaN

---------------------------------------------------------------------------
(* The Data Table view against its contract *)

TableShown ==
    out.halted = "no" /\ out.view.kind = "table" /\ "display_df" \in DOMAIN out.view

\* the place of the row numbered idx in a sequence of rows
PlaceOf(rows, idx) == CHOOSE k \in DOMAIN rows : rows[k].index = idx

\* C7 as claimed: in either direction, two rows with equal timestamps stand
\* in the sorted table in the order they had in the searched set.
C7_Claimed ==
    TableShown =>
        \A i \in DOMAIN out.view.searched :
           \A j \in DOMAIN out.view.searched :
              (i < j /\ out.view.searched[i].timestamp = out.view.searched[j].timestamp) =>
                  PlaceOf(out.view.display_df, out.view.searched[i].index)
                     < PlaceOf(out.view.display_df, out.view.searched[j].index)

RECURSIVE SumOfLengths(_, _, _)
SumOfLengths(rows, show_rows, pages) ==
    IF pages = 0 THEN 0
    ELSE Len(PageSlice(rows, pages, show_rows)) + SumOfLengths(rows, show_rows, pages - 1)

\* C8: for the sorted table and the page size chosen, every page of
\* 1..total_pages is a slice of at most page_size rows, the lengths of the
\* slices add up to the number of rows, every row is on exactly one page,
\* and the page displayed is the slice of the page chosen.
C8_PagesPartitionTheRows ==
    TableShown =>
        LET rows == out.view.display_df
            ps == out.view.show_rows
            tp == out.view.total_pages
        IN  /\ ps \in page_sizes
            /\ \A p \in 1..tp : Len(PageSlice(rows, p, ps)) <= ps
            /\ SumOfLengths(rows, ps, tp) = Len(rows)
            /\ \A i \in DOMAIN rows :
                  Cardinality({p \in 1..tp : rows[i] \in Range(PageSlice(rows, p, ps))}) = 1
            /\ Len(rows) > 0 => out.view.page_rows = PageSlice(rows, out.view.page, ps)

\* a table of several pages of which the last, shorter one is displayed
C8_Witness ==
    /\ TableShown
    /\ out.view.total_pages > 2
    /\ out.view.page = out.view.total_pages
    /\ Len(out.view.page_rows) > 0
    /\ Len(out.view.page_rows) < out.view.show_rows

\* C9: total_pages is the least number of pages of page_size rows that hold
\* total_rows rows and is 1 for no rows; the page chosen lies in
\* 1..total_pages; and for total_rows > 0 start_idx is less than total_rows.
C9_TotalPagesIsCeiling ==
    TableShown =>
        LET n == out.view.total_rows
            ps == out.view.show_rows
            tp == out.view.total_pages
        IN  /\ n = Len(out.view.display_df)
            /\ tp >= 1
            /\ tp * ps >= n
            /\ n > 0 => (tp - 1) * ps < n
            /\ n = 0 => tp = 1
            /\ out.view.page \in 1..tp
            /\ widgets["page"].value = out.view.page
            /\ out.view.start_idx = (out.view.page - 1) * ps
            /\ n > 0 => out.view.start_idx < n

\* the row count is a multiple of the page size and the last page is chosen
C9_Witness ==
    /\ TableShown
    /\ out.view.total_rows = 2 * out.view.show_rows
    /\ out.view.total_pages = 2
    /\ out.view.page = 2

\* a search that leaves no row: one page, page 1
C9_WitnessNoRows ==
    /\ TableShown
    /\ out.view.total_rows = 0
    /\ out.view.total_pages = 1

---------------------------------------------------------------------------
(* The views over an empty result *)

\* the run drew the chart, map or table of the view selected
ViewDrawn ==
    \/ out.view.kind = "overview" /\ out.view.shown = "chart"
    \/ out.view.kind = "map" /\ out.view.shown = "map"
    \/ out.view.kind = "analytics" /\ out.view.shown = "tabs"
    \/ out.view.kind = "table" /\ out.view.shown = "dataframe"

\* the messages by which a view says that it has nothing to show
NoDataMessages ==
    {"No data available for the selected filters.",
     "Location data (lat/lon columns) not found",
     "No valid location data available for the selected filters.",
     "No data matches your current filters.",
     "No data matches your search criteria."}

\* the rows the view selected draws from are none: the filtered set, the
\* located rows for the map, the searched rows for the table
ViewInputEmpty ==
    \/ Len(filtered_df.rows) = 0
    \/ out.view.kind = "map" /\ "map_df" \in DOMAIN out.view /\ out.view.map_df = <<>>
    \/ out.view.kind = "table" /\ "total_rows" \in DOMAIN out.view /\ out.view.total_rows = 0

\* a chart of the Analytics tabs drawn from an aggregate of no rows
EmptyAggregateCharted ==
    /\ out.view.kind = "analytics"
    /\ out.view.shown = "tabs"
    /\ \/ out.view.country_data.data = <<>>
       \/ out.view.device_data.shown = "chart" /\ out.view.device_data.data = <<>>
       \/ out.view.browser_data.shown = "chart" /\ out.view.browser_data.data = <<>>
       \/ out.view.hour_data = <<>>

\* C11 as claimed: in a run where the filter, the search or an aggregation
\* yields no rows, the view selected (Overview, Map View, Analytics, Data
\* Table) says that there is no data and draws no chart, map or table from
\* the empty set.
C11_Claimed ==
    (out.halted = "no" /\ out.view.kind # "settings") =>
        /\ ViewInputEmpty => (~ViewDrawn /\ out.view.shown \in NoDataMessages)
        /\ ~EmptyAggregateCharted

\* the part of C11 about the filter and the search alone
FilterOrSearchEmptySaysNoData ==
    (out.halted = "no" /\ out.view.kind # "settings") =>
        (ViewInputEmpty => (~ViewDrawn /\ out.view.shown \in NoDataMessages))

---------------------------------------------------------------------------
(* The required columns *)

\* the sheet the run loaded lacks a required column
RequiredColumnAbsent ==
    out.halted # "start" /\ required_cols \ out.loaded.columns # {}

\* the run named the missing and the found columns and ended there: no
\* timestamp was parsed, no filter read, no view computed
SchemaHalt ==
    /\ out.halted = "schema"
    /\ out.missing_cols = required_cols \ out.loaded.columns
    /\ out.available_cols = out.loaded.columns
    /\ "filters" \notin DOMAIN out
    /\ "view" \notin DOMAIN out
    /\ df = out.loaded
    /\ "date" \notin df.columns

\* C12 as claimed: a run that loads a sheet without one of the columns
\* timestamp, ip, country reports the missing columns and the columns found
\* and halts before timestamp parsing, the filter stage and the views.
C12_Claimed == RequiredColumnAbsent => SchemaHalt

\* the same for the sheets that hold at least one row
SchemaHaltWhenRowsExist ==
    (RequiredColumnAbsent /\ out.loaded.rows # <<>>) => SchemaHalt

---------------------------------------------------------------------------
(* The loaded set across the filter stage and the views *)

\* C13: after the filter stage and the view of a run, df is what
\* preprocessing made of the loaded set: same rows, same columns, same
\* values, and no week column.
C13_LoadedSetUnchanged ==
    out.halted = "no" =>
        /\ df = Preprocess(out.loaded)
        /\ "week" \notin df.columns
        /\ \A i \in DOMAIN df.rows : "week" \notin DOMAIN df.rows[i]

\* the Weekly chart was drawn over a filtered set that no filter narrowed:
\* the week column is on filtered_df, whose rows are all the rows of df
C13_Witness ==
    /\ out.halted = "no"
    /\ out.view.kind = "overview"
    /\ out.view.shown = "chart"
    /\ out.view.chart_type = "Weekly"
    /\ "week" \in filtered_df.columns
    /\ Len(out.filters.date_range) = 1
    /\ Len(filtered_df.rows) = Len(df.rows)
    /\ Len(df.rows) > 1

---------------------------------------------------------------------------
(* Grouping by date *)

DailyChartShown ==
    /\ out.halted = "no"
    /\ out.view.kind = "overview"
    /\ out.view.shown = "chart"
    /\ out.view.chart_type = "Daily"

\* C14: the Daily grouping has one bucket for each date that occurs in the
\* filtered set and none for another date, in chronological order, each
\* bucket counting the rows of its date, and the counts add up to the
\* number of filtered rows; the visits of 2024-01-01 (US), 2024-01-01 (US),
\* 2024-01-02 (FR) filtered by country US give the one bucket
\* (2024-01-01, 2).
C14_OneBucketPerDatePresent ==
    DailyChartShown =>
        LET td == out.view.time_data
        IN  /\ {td[k].date : k \in DOMAIN td} = DistinctDates(filtered_df)
            /\ Len(td) = Cardinality(DistinctDates(filtered_df))
            /\ \A j, k \in DOMAIN td : j < k => td[j].date < td[k].date
            /\ \A k \in DOMAIN td :
                  /\ td[k].visits > 0
                  /\ td[k].visits
                        = Cardinality({i \in DOMAIN filtered_df.rows :
                                          filtered_df.rows[i].date = td[k].date})
            /\ SumVisits(td, 1, Len(td)) = Len(filtered_df.rows)
            /\ (source = Sheet(AllHeaders, ScenarioLog) /\ out.loaded.rows # <<>>
                   /\ Len(out.loaded.rows) = 3
                   /\ out.filters = [date_range |-> <<0, 1>>, country |-> "US",
                                     device |-> ALL, browser |-> ALL,
                                     time_filter |-> ALL_DAY])
                  => td = <<[date |-> 0, visits |-> 2]>>

\* the scenario: the three visits loaded, country US selected, one bucket
C14_Witness ==
    /\ DailyChartShown
    /\ Len(df.rows) = 3
    /\ {df.rows[i].timestamp : i \in DOMAIN df.rows} = {10, 14, 33}
    /\ out.filters.country = "US"
    /\ Len(filtered_df.rows) = 2
    /\ out.view.time_data = <<[date |-> 0, visits |-> 2]>>

\* visits on 2024-01-01 and 2024-01-03 only: two buckets, none between
C14_WitnessGap ==
    /\ DailyChartShown
    /\ DistinctDates(filtered_df) = {0, 2}
    /\ Len(out.view.time_data) = 2

---------------------------------------------------------------------------
(* The confirmation of a clear *)

\* st.session_state.get('confirm_clear', False)
ConfirmClear == Get(session_state, "confirm_clear", FALSE)

\* the step ran clear_analytics_data(), to success or to failure
ClearRan == event' \in {"clear", "clear_failed"}

\* C15: clear_analytics_data() runs only in a step taken with the flag
\* confirm_clear set; the flag becomes set only by a click on the clear
\* button and a cancel unsets it, so that the flag a clear meets comes from
\* an earlier click not cancelled since; and after every run of
\* clear_analytics_data(), successful or failed, the flag is not set.
C15_ClearNeedsFreshConfirmation ==
    [][/\ ClearRan => (ConfirmClear /\ ~ConfirmClear')
       /\ (~ConfirmClear /\ ConfirmClear') => event' = "confirm"
       /\ event' = "confirm" => (~ConfirmClear /\ ConfirmClear')
       /\ event' = "cancel" => (ConfirmClear /\ ~ConfirmClear')
       /\ (ConfirmClear /\ ~ConfirmClear') => (ClearRan \/ event' = "cancel")]_vars

\* a confirmed clear has run to success after a filter was set: the flag
\* and the filter keys it deleted are gone, and the next run fetched
C15_Witness ==
    /\ event = "clear"
    /\ fetched
    /\ out.halted = "no"
    /\ ~ConfirmClear
    /\ out.filters.country = ALL
    /\ out.filters.time_filter # ALL_DAY

\* a confirmed clear has failed: the flag is stored as False
C15_WitnessFailed ==
    /\ event = "clear_failed"
    /\ "confirm_clear" \in DOMAIN session_state
    /\ ~ConfirmClear

---------------------------------------------------------------------------
(* The cache after a failed fetch *)

\* the cache holds what a failed fetch returned
HoldsFailedFetch(c) == c.kind = "entry" /\ c.value = EmptyFrame

\* C16: a run whose fetch fails leaves the empty set in the cache, and from
\* then until the TTL is over or a confirmed clear empties the cache every
\* run gets the empty set without a fetch and halts in the empty state,
\* whatever the source has become.
C16_FailedFetchIsCached ==
    [][/\ (ScriptRuns /\ fetched' /\ source = Down) =>
             (HoldsFailedFetch(cache') /\ cache'.age = 0 /\ out'.halted = "empty")
       /\ (HoldsFailedFetch(cache) /\ cache.age < TTL /\ ScriptRuns /\ event' # "clear") =>
             /\ ~fetched'
             /\ cache' = cache
             /\ out'.loaded = EmptyFrame
             /\ out'.halted = "empty"]_vars

\* the source serves a sheet with rows again, and a run inside the TTL of
\* the failed fetch still halted in the empty state without fetching
C16_Witness ==
    /\ source.kind = "sheet"
    /\ source.rows # <<>>
    /\ required_cols \subseteq {StripLower(h) : h \in source.columns}
    /\ HoldsFailedFetch(cache)
    /\ cache.age > 0
    /\ cache.age < TTL
    /\ event = "rerun"
    /\ ~fetched
    /\ out.halted = "empty"

=============================================================================
